---- MODULE Spec2Model ----
(***************************************************************************)
(* Event routing and dispatch of streamdeck_sdk (sdk.py, mixins.py).       *)
(*                                                                         *)
(* One StreamDeck object is constructed with a list of declared actions,   *)
(* run() parses the start arguments, wires the actions and serves the      *)
(* WebSocket connection; the transport then calls ws_on_open,              *)
(* ws_on_message, ws_on_error and ws_on_close serially, in one thread.     *)
(*                                                                         *)
(* Python values are modelled as follows.                                  *)
(*   - A dict is a sequence of [key, val] records in insertion order       *)
(*     (assigning to an existing key keeps the key's position).            *)
(*   - An object is known by the methods it exposes and by what its        *)
(*     handlers do when called (return, raise, or call send).              *)
(*   - A call returns a record [inv, log, sent, exc, actions]: the handler *)
(*     invocations made so far, the log records written so far, the frames *)
(*     put on the connection so far, the exception in flight ("none" when  *)
(*     the call returned normally), and the registry as the call leaves it.*)
(*                                                                         *)
(* The transport may deliver any number of frames.  The state remembers    *)
(* the latest two of them and the handler invocations they caused, which   *)
(* is what relating a message to the one before it needs.                  *)
(***************************************************************************)
EXTENDS Naturals, Sequences, FiniteSets

(* ------------------------------ bounds --------------------------------- *)

\* Longest declared action list.
MaxActions == 3

(* --------------------------- Python atoms ------------------------------ *)

None == "None"
Absent == "absent"
NoExc == "none"

\* The WebSocketApp object built by run().
WSAPP == "WebSocketApp"

(* ------------------- handler names (mixins.py) ------------------------- *)

\* Handler methods of ActionEventHandlersMixin used by the modelled events.
ActionEventHandlersMixin == {"on_key_down", "on_will_appear"}

\* Handler methods of PluginEventHandlersMixin used by the modelled events.
PluginEventHandlersMixin == {"on_application_did_launch", "on_system_did_wake_up"}

\* Base inherits both handler mixins: Action and StreamDeck expose them all.
Base == ActionEventHandlersMixin \cup PluginEventHandlersMixin

(* --------------------- routing tables (event_routings) ----------------- *)

\* Events delivered to the one action the event names.
ACTION_EVENT_ROUTING_MAP ==
    [e \in {"keyDown", "willAppear"} |->
        [handler_name |-> IF e = "keyDown" THEN "on_key_down" ELSE "on_will_appear",
         scope |-> "ActionScoped"]]

\* Events delivered to every registered action.
PLUGIN_EVENT_ROUTING_MAP ==
    [e \in {"applicationDidLaunch"} |->
        [handler_name |-> "on_application_did_launch", scope |-> "PluginBroadcast"]]

\* Events delivered to the plugin-level object only: they have a routing
\* entry and are in neither of the two tables above.
PluginOnlyEvents == {"systemDidWakeUp"}

\* Every event with a routing entry.
EVENT_ROUTING_MAP ==
    [e \in DOMAIN ACTION_EVENT_ROUTING_MAP \cup DOMAIN PLUGIN_EVENT_ROUTING_MAP
            \cup PluginOnlyEvents |->
        IF e \in DOMAIN ACTION_EVENT_ROUTING_MAP THEN ACTION_EVENT_ROUTING_MAP[e]
        ELSE IF e \in DOMAIN PLUGIN_EVENT_ROUTING_MAP THEN PLUGIN_EVENT_ROUTING_MAP[e]
        ELSE [handler_name |-> "on_system_did_wake_up", scope |-> "PluginOnly"]]

(* ------------------------- declared objects ---------------------------- *)

\* Action kinds a plugin author declares; "k3" is a kind the host may name
\* that no declared action has.
DeclaredKinds == {"k1", "k2"}
HostKinds == DeclaredKinds \cup {"k3"}
Contexts == {"c1", "c2"}

\* What a handler of an object does when it is called.
Behaviours == {"return", "raise", "send"}

\* An object as Base makes it: every handler method, each returning.
Plain == [methods |-> Base, does |-> "return"]

\* The shapes of object the model draws handler objects from: the methods
\* the object exposes and what each of its handlers does.
Profiles ==
    { Plain,
      [methods |-> Base \ {"on_application_did_launch"}, does |-> "return"],
      [methods |-> Base \ {"on_key_down"}, does |-> "return"],
      [methods |-> Base, does |-> "raise"],
      [methods |-> Base, does |-> "send"] }

\* A declared action: its UUID class attribute (Absent when the class does
\* not define it), its profile, and the fields Action.__init__ sets to None.
Action(uuid, profile) ==
    [UUID |-> uuid, methods |-> profile.methods, does |-> profile.does,
     ws |-> None, plugin_uuid |-> None, info |-> None]

\* Actions with a UUID and Base's handlers unchanged.
PlainActions == { Action(u, Plain) : u \in DeclaredKinds }

ActionObjects ==
    { Action(u, p) : u \in DeclaredKinds, p \in Profiles } \cup { Action(Absent, Plain) }

RECURSIVE SeqsUpTo(_, _)
SeqsUpTo(S, n) ==
    IF n = 0 THEN { <<>> }
    ELSE LET shorter == SeqsUpTo(S, n - 1)
         IN shorter \cup { Append(s, x) : s \in { t \in shorter : Len(t) = n - 1 }, x \in S }

\* The `actions` argument of StreamDeck(...): a list of actions, of which
\* at most one is not a plain action.  The default, None, is wired as the
\* empty list is (no action, empty registry).
ActionLists ==
    { l \in SeqsUpTo(ActionObjects, MaxActions) :
        \A i, j \in DOMAIN l : l[i] \notin PlainActions /\ l[j] \notin PlainActions => i = j }

\* The plugins the model runs: an action list and the shape of the
\* plugin-level object (the StreamDeck subclass), at most one object of the
\* two departing from what Base provides.
Plugins ==
    { p \in [actions : ActionLists, handlers : Profiles] :
        p.handlers # Plain => \A i \in DOMAIN p.actions : p.actions[i] \in PlainActions }

(* --------------------------- Python dict ------------------------------- *)

RECURSIVE DictIndex(_, _, _)
\* Position of key k in dict d at or after position i, 0 when missing.
DictIndex(d, k, i) ==
    IF i > Len(d) THEN 0
    ELSE IF d[i].key = k THEN i ELSE DictIndex(d, k, i + 1)

\* k in d
DictHas(d, k) == DictIndex(d, k, 1) # 0

\* d.get(k) for a key of d (d.get(k) is None exactly when ~DictHas(d, k)).
DictGet(d, k) == d[DictIndex(d, k, 1)].val

\* Variant of DictSet: a key already bound keeps its value, as setdefault
\* would.
DictSet_keeping_first(d, k, v) ==
    IF DictIndex(d, k, 1) = 0
    THEN Append(d, [key |-> k, val |-> v])
    ELSE d

\* Variant of DictSet: rebinding a key moves it to the end, as deleting and
\* inserting it again would.
DictSet_reinserting(d, k, v) ==
    Append(SelectSeq(d, LAMBDA e : e.key # k), [key |-> k, val |-> v])

\* d[k] = v: rebinding keeps the key's position, a new key goes last.
DictSet(d, k, v) ==
    IF ~DictHas(d, k)
    THEN Append(d, [key |-> k, val |-> v])
    ELSE [d EXCEPT ![DictIndex(d, k, 1)].val = v]

\* d.values(), in insertion order.
DictValues(d) == [i \in 1..Len(d) |-> d[i].val]

DictKeys(d) == { d[i].key : i \in 1..Len(d) }

(* ------------------------- inbound messages ---------------------------- *)

\* A text frame from the host: either text that is not JSON, or a JSON
\* object, given by the value of each key (Absent when the key is missing).
Frame(text, event, action, context, payload) ==
    [text |-> text, event |-> event, action |-> action, context |-> context,
     payload |-> payload]

Messages ==
    { Frame("garbage", Absent, Absent, Absent, Absent),
      Frame("object", Absent, Absent, Absent, "ok"),
      Frame("object", "somethingNew", Absent, Absent, "ok"),
      Frame("object", "applicationDidLaunch", Absent, Absent, "ok"),
      Frame("object", "systemDidWakeUp", Absent, Absent, "ok"),
      Frame("object", "keyDown", "k1", "c1", "bad") }
    \cup { Frame("object", "keyDown", a, "c1", "ok") : a \in {"k1", "k3"} }
    \cup { Frame("object", "keyDown", "k1", c, "ok") : c \in Contexts }

\* Start arguments of the process (argparse, all four required).
Ports == {28196}
PluginUUIDs == {"plugin-A"}
RegisterEvents == {"registerPlugin"}
InfoTexts == {"info-json", "info-bad"}

(* ------------------------------ state ---------------------------------- *)

VARIABLES
    actions_list,       \* self.actions_list: the declared actions, or None
    handlers,           \* the plugin-level object's methods and behaviour
    actions,            \* self.actions: dict kind -> index into actions_list
    ws,                 \* self.ws
    port,               \* self.port
    plugin_uuid,        \* self.plugin_uuid
    register_event,     \* self.register_event
    info,               \* self.info
    registration_dict,  \* self.registration_dict
    phase,              \* where run() is: "constructed", "serving", "returned"
    conn,               \* the connection: "connecting", "open", "closed"
    sent,               \* frames put on the connection, oldest first
    msgs,               \* the latest frames delivered (at most two), older first
    inv,                \* the handler invocations msgs caused, oldest first
    last,               \* the latest call: "none", "run", "open", "message", ...
    log,                \* log records written by the latest call
    escaped             \* exception the latest call let out, NoExc if none

vars == <<actions_list, handlers, actions, ws, port, plugin_uuid, register_event,
          info, registration_dict, phase, conn, sent, msgs, inv, last, log, escaped>>

\* The session fields no transport callback assigns.
config == <<actions_list, ws, port, plugin_uuid, register_event,
            info, registration_dict>>

(* --------------------------- call results ------------------------------ *)

\* The running call: n is the place in msgs of the message being handled,
\* seen the invocations remembered when the call starts; actions is
\* self.actions as the call leaves it.
Enter(n, seen) ==
    [n |-> n, inv |-> seen, log |-> <<>>, sent |-> sent, exc |-> NoExc,
     actions |-> actions]

Raise(r, e) == [r EXCEPT !.exc = e]

Log(r, level, what) == [r EXCEPT !.log = Append(@, [level |-> level, what |-> what])]

\* @log_errors: an exception leaving the wrapped function is logged as an
\* error and the call returns None.
log_errors(r) ==
    IF r.exc = NoExc THEN r
    ELSE [Log(r, "error", r.exc) EXCEPT !.exc = NoExc]

(* ------------------------------ SendMixin ------------------------------ *)

\* The class attribute `ws` of SendMixin and its subclasses: the class body
\* only annotates it, no value is ever bound on a class.
ClassWs == Absent

\* json.dumps of the registration dict: the key/value pairs in dict order.
json_dumps(data) == << <<"event", data.event>>, <<"uuid", data.uuid>> >>

\* SendMixin.send is a classmethod: its `self` is the class, so self.ws is
\* the class attribute, and reading a missing one raises AttributeError.
send(data, r) ==
    IF ClassWs = Absent
    THEN Raise(r, "AttributeError")
    ELSE [r EXCEPT !.sent = Append(@, json_dumps(data))]

\* A command a handler builds and hands to send.
Command == [event |-> "logMessage", uuid |-> Absent]

(* ------------------------------ handlers ------------------------------- *)

\* Variant of Call: the invocation is put ahead of the earlier ones, as if
\* handlers were deferred and run newest first.
Call_newest_first(target, name, does, obj, r) ==
    LET called == [r EXCEPT !.inv = <<[msg |-> r.n, target |-> target,
                                      handler |-> name,
                                      context |-> obj.context]>> \o @]
    IN  CASE does = "return" -> called
          [] does = "raise"  -> Raise(called, "HandlerError")
          [] does = "send"   -> send(Command, called)

\* handler(obj=obj) on target (0: the plugin-level object, i: the i-th
\* declared action), whose handlers behave as `does`.
Call(target, name, does, obj, r) ==
    LET called == [r EXCEPT !.inv = Append(@, [msg |-> r.n, target |-> target,
                                             handler |-> name,
                                             context |-> obj.context])]
    IN  CASE does = "return" -> called
          [] does = "raise"  -> Raise(called, "HandlerError")
          [] does = "send"   -> send(Command, called)

(* ------------------------------ decoding ------------------------------- *)

\* json.loads(message): the dict of a JSON object, an error for other text.
json_loads(message, r) ==
    IF message.text = "object" THEN r ELSE Raise(r, "JSONDecodeError")

\* event_routing.obj.parse_obj(message_dict): the typed event, or a
\* validation error when a field the event's shape requires is missing or
\* the payload does not fit.
Decodable(message_dict) ==
    /\ message_dict.payload = "ok"
    /\ message_dict.event \in DOMAIN ACTION_EVENT_ROUTING_MAP
          => message_dict.action # Absent /\ message_dict.context # Absent

parse_obj(message_dict) ==
    [event |-> message_dict.event, action |-> message_dict.action,
     context |-> message_dict.context]

(* ------------------------------- routing ------------------------------- *)

\* Variant of route_plugin_event_in_plugin_handler: the function without
\* its @log_errors wrapper, so what the handler raises reaches ws_on_message.
route_plugin_event_undecorated(event_routing, obj, r) ==
    IF event_routing.handler_name \notin handlers.methods
    THEN Log(r, "error", "Handler missing")
    ELSE Call(0, event_routing.handler_name, handlers.does, obj, r)

\* StreamDeck.route_plugin_event_in_plugin_handler
route_plugin_event_in_plugin_handler(event_routing, obj, r) ==
    log_errors(
        IF event_routing.handler_name \notin handlers.methods
        THEN Log(r, "error", "Handler missing")
        ELSE Call(0, event_routing.handler_name, handlers.does, obj, r))

\* Variant of route_action_event_in_action_handler: the target is the first
\* registered action, whatever kind the event names.
route_action_event_ignoring_kind(event_routing, obj, r) ==
    log_errors(
        IF obj.action = Absent
        THEN Log(r, "error", "AttributeError")
        ELSE IF ~DictHas(actions, obj.action)
        THEN Log(r, "info", "not registered")
        ELSE LET action_obj == DictValues(actions)[1]
             IN  IF event_routing.handler_name \notin actions_list[action_obj].methods
                 THEN Log(r, "error", "Handler missing")
                 ELSE Call(action_obj, event_routing.handler_name,
                           actions_list[action_obj].does, obj, r))

\* Variant of route_action_event_in_action_handler: no test for a missing
\* registry entry, so the handler lookup on None fails.
route_action_event_without_none_test(event_routing, obj, r) ==
    log_errors(
        IF obj.action = Absent
        THEN Log(r, "error", "AttributeError")
        ELSE IF ~DictHas(actions, obj.action)
        THEN Log(r, "error", "Handler missing")
        ELSE LET action_obj == DictGet(actions, obj.action)
             IN  IF event_routing.handler_name \notin actions_list[action_obj].methods
                 THEN Log(r, "error", "Handler missing")
                 ELSE Call(action_obj, event_routing.handler_name,
                           actions_list[action_obj].does, obj, r))

\* Variant of route_action_event_in_action_handler: the instance is taken
\* out of the registry by the lookup, as self.actions.pop would.
route_action_event_popping(event_routing, obj, r) ==
    log_errors(
        IF obj.action = Absent
        THEN Log(r, "error", "AttributeError")
        ELSE LET action_obj == DictGet(actions, obj.action)
                 popped == [r EXCEPT !.actions =
                                SelectSeq(@, LAMBDA e : e.key # obj.action)]
             IN  IF ~DictHas(actions, obj.action)
                 THEN Log(r, "info", "not registered")
                 ELSE IF event_routing.handler_name \notin actions_list[action_obj].methods
                 THEN Log(popped, "error", "Handler missing")
                 ELSE Call(action_obj, event_routing.handler_name,
                           actions_list[action_obj].does, obj, popped))

\* Variant of route_action_event_in_action_handler: the registry is
\* searched for the event's context, as if instances were kept per button.
route_action_event_by_context(event_routing, obj, r) ==
    log_errors(
        IF obj.context = Absent
        THEN Log(r, "error", "AttributeError")
        ELSE LET action_obj == DictGet(actions, obj.context)
             IN  IF ~DictHas(actions, obj.context)
                 THEN Log(r, "info", "not registered")
                 ELSE IF event_routing.handler_name \notin actions_list[action_obj].methods
                 THEN Log(r, "error", "Handler missing")
                 ELSE Call(action_obj, event_routing.handler_name,
                           actions_list[action_obj].does, obj, r))

\* StreamDeck.route_action_event_in_action_handler
route_action_event_in_action_handler(event_routing, obj, r) ==
    log_errors(
        IF obj.action = Absent
        THEN Log(r, "error", "AttributeError")
        ELSE LET action_obj == DictGet(actions, obj.action)
             IN  IF ~DictHas(actions, obj.action)
                 THEN Log(r, "info", "not registered")
                 ELSE IF event_routing.handler_name \notin actions_list[action_obj].methods
                 THEN Log(r, "error", "Handler missing")
                 ELSE Call(action_obj, event_routing.handler_name,
                           actions_list[action_obj].does, obj, r))

RECURSIVE for_action_obj_continuing(_, _, _, _)
\* Variant of for_action_obj: an instance without the handler is logged and
\* skipped, and the loop goes on.
for_action_obj_continuing(i, event_routing, obj, r) ==
    IF i > Len(DictValues(actions)) THEN r
    ELSE LET action_obj == DictValues(actions)[i]
         IN  IF event_routing.handler_name \notin actions_list[action_obj].methods
             THEN for_action_obj_continuing(i + 1, event_routing, obj,
                                            Log(r, "error", "Handler missing"))
             ELSE LET called == Call(action_obj, event_routing.handler_name,
                                     actions_list[action_obj].does, obj, r)
                  IN  IF called.exc # NoExc THEN called
                      ELSE for_action_obj_continuing(i + 1, event_routing, obj, called)

RECURSIVE for_action_obj_catching_each(_, _, _, _)
\* Variant of for_action_obj: what a handler raises is logged inside the
\* loop, and the loop goes on with the next instance.
for_action_obj_catching_each(i, event_routing, obj, r) ==
    IF i > Len(DictValues(actions)) THEN r
    ELSE LET action_obj == DictValues(actions)[i]
         IN  IF event_routing.handler_name \notin actions_list[action_obj].methods
             THEN Log(r, "error", "Handler missing")
             ELSE for_action_obj_catching_each(i + 1, event_routing, obj,
                      log_errors(Call(action_obj, event_routing.handler_name,
                                      actions_list[action_obj].does, obj, r)))

RECURSIVE for_action_obj(_, _, _, _)
\* The loop of route_plugin_event_in_actions_handler from the i-th value of
\* self.actions.values() on.
for_action_obj(i, event_routing, obj, r) ==
    IF i > Len(DictValues(actions)) THEN r
    ELSE LET action_obj == DictValues(actions)[i]
         IN  IF event_routing.handler_name \notin actions_list[action_obj].methods
             THEN Log(r, "error", "Handler missing")
             ELSE LET called == Call(action_obj, event_routing.handler_name,
                                     actions_list[action_obj].does, obj, r)
                  IN  IF called.exc # NoExc THEN called
                      ELSE for_action_obj(i + 1, event_routing, obj, called)

\* StreamDeck.route_plugin_event_in_actions_handler
route_plugin_event_in_actions_handler(event_routing, obj, r) ==
    log_errors(for_action_obj(1, event_routing, obj, r))

\* Variant of route: the route the event's table selects runs first, the
\* plugin-level route last.
route_action_level_first(event, event_routing, obj, r) ==
    LET action_done ==
            IF event \in DOMAIN ACTION_EVENT_ROUTING_MAP
            THEN route_action_event_in_action_handler(event_routing, obj, r)
            ELSE IF event \in DOMAIN PLUGIN_EVENT_ROUTING_MAP
            THEN route_plugin_event_in_actions_handler(event_routing, obj, r)
            ELSE r
    IN  route_plugin_event_in_plugin_handler(event_routing, obj, action_done)

\* Variant of route: when the plugin-level object lacks the handler the
\* event goes no further, no action-level route is run.
route_dropping_without_plugin_handler(event, event_routing, obj, r) ==
    LET plugin_done == route_plugin_event_in_plugin_handler(event_routing, obj, r)
    IN  IF event_routing.handler_name \notin handlers.methods
        THEN plugin_done
        ELSE IF event \in DOMAIN ACTION_EVENT_ROUTING_MAP
        THEN route_action_event_in_action_handler(event_routing, obj, plugin_done)
        ELSE IF event \in DOMAIN PLUGIN_EVENT_ROUTING_MAP
        THEN route_plugin_event_in_actions_handler(event_routing, obj, plugin_done)
        ELSE plugin_done

\* Variant of route: the broadcast route is run for every event, after the
\* action-scoped route when the event has one.
route_broadcasting_always(event, event_routing, obj, r) ==
    LET plugin_done == route_plugin_event_in_plugin_handler(event_routing, obj, r)
        action_done ==
            IF event \in DOMAIN ACTION_EVENT_ROUTING_MAP
            THEN route_action_event_in_action_handler(event_routing, obj, plugin_done)
            ELSE plugin_done
    IN  route_plugin_event_in_actions_handler(event_routing, obj, action_done)

\* Lines 111-115 of ws_on_message: the plugin-level route, then the route
\* the event's table selects.
route(event, event_routing, obj, r) ==
    LET plugin_done == route_plugin_event_in_plugin_handler(event_routing, obj, r)
    IN  IF event \in DOMAIN ACTION_EVENT_ROUTING_MAP
        THEN route_action_event_in_action_handler(event_routing, obj, plugin_done)
        ELSE IF event \in DOMAIN PLUGIN_EVENT_ROUTING_MAP
        THEN route_plugin_event_in_actions_handler(event_routing, obj, plugin_done)
        ELSE plugin_done

\* Variant of ws_on_message: no test for a missing routing entry, so the
\* decoder lookup on None fails.
ws_on_message_without_none_test(message, r) ==
    log_errors(
        LET loaded == json_loads(message, r)
        IN  IF loaded.exc # NoExc THEN loaded
            ELSE IF message.event = Absent THEN Raise(r, "KeyError")
            ELSE IF message.event \notin DOMAIN EVENT_ROUTING_MAP
            THEN Raise(r, "AttributeError")
            ELSE IF ~Decodable(message) THEN Raise(r, "ValidationError")
            ELSE route(message.event, EVENT_ROUTING_MAP[message.event],
                       parse_obj(message), r))

\* Variant of ws_on_message: the function without its @log_errors wrapper.
ws_on_message_undecorated(message, r) ==
    LET loaded == json_loads(message, r)
    IN  IF loaded.exc # NoExc THEN loaded
        ELSE IF message.event = Absent THEN Raise(r, "KeyError")
        ELSE IF message.event \notin DOMAIN EVENT_ROUTING_MAP
        THEN Log(r, "warning", "event_routing is None")
        ELSE IF ~Decodable(message) THEN Raise(r, "ValidationError")
        ELSE route(message.event, EVENT_ROUTING_MAP[message.event],
                   parse_obj(message), r)

\* Variant of ws_on_message: the decoder accepts every payload, so the
\* message is routed without validation.
ws_on_message_without_validation(message, r) ==
    log_errors(
        LET loaded == json_loads(message, r)
        IN  IF loaded.exc # NoExc THEN loaded
            ELSE IF message.event = Absent THEN Raise(r, "KeyError")
            ELSE IF message.event \notin DOMAIN EVENT_ROUTING_MAP
            THEN Log(r, "warning", "event_routing is None")
            ELSE route(message.event, EVENT_ROUTING_MAP[message.event],
                       parse_obj(message), r))

\* Variant of ws_on_message: an error met before routing is logged and
\* raised again to the caller.
ws_on_message_reraising(message, r) ==
    LET loaded == json_loads(message, r)
        done == IF loaded.exc # NoExc THEN loaded
                ELSE IF message.event = Absent THEN Raise(r, "KeyError")
                ELSE IF message.event \notin DOMAIN EVENT_ROUTING_MAP
                THEN Log(r, "warning", "event_routing is None")
                ELSE IF ~Decodable(message) THEN Raise(r, "ValidationError")
                ELSE route(message.event, EVENT_ROUTING_MAP[message.event],
                           parse_obj(message), r)
    IN  IF done.exc # NoExc THEN Log(done, "error", done.exc) ELSE done

\* StreamDeck.ws_on_message
ws_on_message(message, r) ==
    log_errors(
        LET loaded == json_loads(message, r)
        IN  IF loaded.exc # NoExc THEN loaded
            ELSE IF message.event = Absent THEN Raise(r, "KeyError")
            ELSE IF message.event \notin DOMAIN EVENT_ROUTING_MAP
            THEN Log(r, "warning", "event_routing is None")
            ELSE IF ~Decodable(message) THEN Raise(r, "ValidationError")
            ELSE route(message.event, EVENT_ROUTING_MAP[message.event],
                       parse_obj(message), r))

\* StreamDeck.ws_on_open
ws_on_open(r) == log_errors(send(registration_dict, Log(r, "info", "WS OPENED")))

\* StreamDeck.ws_on_error
ws_on_error(r) == log_errors(Log(r, "error", "transport error"))

\* StreamDeck.ws_on_close
ws_on_close(r) == log_errors(Log(r, "info", "WS CLOSED"))

(* ------------------------------- startup ------------------------------- *)

RECURSIVE for_action(_, _)
\* The loop of __init_actions from the i-th declared action on; w holds
\* the action list, the registry, the log and the exception, and the
\* session fields the loop copies.
for_action(i, w) ==
    IF i > Len(w.actions_list) THEN w
    ELSE IF w.actions_list[i].UUID = Absent
    THEN Raise(Log(w, "error", "must have attribute UUID"), "AttributeError")
    ELSE for_action(i + 1,
            [w EXCEPT !.actions_list[i].ws = w.ws,
                      !.actions_list[i].plugin_uuid = w.plugin_uuid,
                      !.actions_list[i].info = w.info,
                      !.actions = DictSet(@, w.actions_list[i].UUID, i)])

\* StreamDeck.__init_actions
init_actions(w) == for_action(1, w)

\* registration_objs.Info.parse_obj(json.loads(args.info))
InfoOf(text) == IF text = "info-json" THEN "Info" ELSE None

\* Variant of run: the actions are wired before the WebSocketApp is built,
\* so they are handed the connection handle of a new object, None.
run_wiring_before_connection(args) ==
    LET parsed == [actions_list |-> actions_list, actions |-> actions,
                   port |-> args.port, plugin_uuid |-> args.pluginUUID,
                   register_event |-> args.registerEvent,
                   info |-> info, registration_dict |-> registration_dict,
                   ws |-> ws, log |-> <<>>, exc |-> NoExc, served |-> FALSE]
    IN  log_errors(
            IF InfoOf(args.info) = None THEN Raise(parsed, "ValidationError")
            ELSE LET wired == init_actions(
                        [parsed EXCEPT
                            !.info = InfoOf(args.info),
                            !.registration_dict = [event |-> args.registerEvent,
                                                   uuid |-> args.pluginUUID]])
                 IN  IF wired.exc # NoExc THEN wired
                     ELSE [wired EXCEPT !.ws = WSAPP, !.served = TRUE])

\* StreamDeck.run up to the call of run_forever; served tells whether that
\* call is reached.
run(args) ==
    LET parsed == [actions_list |-> actions_list, actions |-> actions,
                   port |-> args.port, plugin_uuid |-> args.pluginUUID,
                   register_event |-> args.registerEvent,
                   info |-> info, registration_dict |-> registration_dict,
                   ws |-> ws, log |-> <<>>, exc |-> NoExc, served |-> FALSE]
    IN  log_errors(
            IF InfoOf(args.info) = None THEN Raise(parsed, "ValidationError")
            ELSE LET wired == init_actions(
                        [parsed EXCEPT
                            !.info = InfoOf(args.info),
                            !.registration_dict = [event |-> args.registerEvent,
                                                   uuid |-> args.pluginUUID],
                            !.ws = WSAPP])
                 IN  IF wired.exc # NoExc THEN wired
                     ELSE [wired EXCEPT !.served = TRUE])

(* ----------------------------- transitions ---------------------------- *)

Args == [port : Ports, pluginUUID : PluginUUIDs, registerEvent : RegisterEvents,
         info : InfoTexts]

\* StreamDeck.__init__: the object as constructed, for every plugin.
Init ==
    /\ \E p \in Plugins :
        /\ actions_list = p.actions
        /\ handlers = p.handlers
    /\ actions = <<>>
    /\ ws = None
    /\ port = None
    /\ plugin_uuid = None
    /\ register_event = None
    /\ info = None
    /\ registration_dict = None
    /\ phase = "constructed"
    /\ conn = "none"
    /\ sent = <<>>
    /\ msgs = <<>>
    /\ inv = <<>>
    /\ last = "none"
    /\ log = <<>>
    /\ escaped = NoExc

\* The process calls run(): it serves the connection, or returns at once
\* when startup failed.
Run ==
    /\ phase = "constructed"
    /\ \E args \in Args :
        LET done == run(args)
        IN  /\ actions_list' = done.actions_list
            /\ actions' = done.actions
            /\ port' = done.port
            /\ plugin_uuid' = done.plugin_uuid
            /\ register_event' = done.register_event
            /\ info' = done.info
            /\ registration_dict' = done.registration_dict
            /\ ws' = done.ws
            /\ phase' = IF done.served THEN "serving" ELSE "returned"
            /\ conn' = IF done.served THEN "connecting" ELSE conn
            /\ log' = done.log
            /\ escaped' = done.exc
    /\ last' = "run"
    /\ UNCHANGED <<handlers, sent, msgs, inv>>

\* The result of a transport callback becomes the state.
Returned(name, done) ==
    /\ actions' = done.actions
    /\ inv' = done.inv
    /\ sent' = done.sent
    /\ log' = done.log
    /\ escaped' = done.exc
    /\ last' = name

\* The transport reports the connection open.
Open ==
    /\ phase = "serving"
    /\ conn = "connecting"
    /\ Returned("open", ws_on_open(Enter(0, inv)))
    /\ conn' = "open"
    /\ UNCHANGED <<config, handlers, phase, msgs>>

\* The frames still remembered once one more arrives: the older of two is
\* forgotten.
Recent(frames) == IF Len(frames) = 2 THEN Tail(frames) ELSE frames

\* The invocations still remembered once one more frame arrives: those of a
\* forgotten frame go, the others follow their frame's new place.
RecentCalls ==
    IF Len(msgs) = 2
    THEN LET kept == SelectSeq(inv, LAMBDA c : c.msg = 2)
         IN  [i \in 1..Len(kept) |-> [kept[i] EXCEPT !.msg = 1]]
    ELSE inv

\* The transport delivers the next text frame.
Message ==
    /\ phase = "serving"
    /\ conn = "open"
    /\ \E message \in Messages :
        /\ msgs' = Append(Recent(msgs), message)
        /\ Returned("message",
                    ws_on_message(message, Enter(Len(Recent(msgs)) + 1, RecentCalls)))
    /\ UNCHANGED <<config, handlers, phase, conn>>

\* The transport reports an error (a second report in a row changes
\* nothing more).
Error ==
    /\ phase = "serving"
    /\ conn \in {"connecting", "open"}
    /\ last # "error"
    /\ Returned("error", ws_on_error(Enter(0, inv)))
    /\ UNCHANGED <<config, handlers, phase, conn, msgs>>

\* The transport reports the connection closed; run_forever and run return.
Close ==
    /\ phase = "serving"
    /\ conn \in {"connecting", "open"}
    /\ Returned("close", ws_on_close(Enter(0, inv)))
    /\ conn' = "closed"
    /\ phase' = "returned"
    /\ UNCHANGED <<config, handlers, msgs>>

Next == Run \/ Open \/ Message \/ Error \/ Close

Spec == Init /\ [][Next]_vars

(* ===================== vocabulary of the properties ==================== *)

\* The handler invocations the k-th remembered message caused, in the order
\* they were made.
CallsOf(k) == SelectSeq(inv, LAMBDA c : c.msg = k)

\* The objects invoked by message k, in order (0 is the plugin-level object).
TargetsOf(k) == LET calls == CallsOf(k) IN [i \in 1..Len(calls) |-> calls[i].target]

\* The action instances invoked by message k, in order.
ActionTargetsOf(k) == SelectSeq(TargetsOf(k), LAMBDA t : t # 0)

\* Message m is well-formed and its event name has a routing entry.
Routable(m) ==
    /\ m.text = "object"
    /\ m.event \in DOMAIN EVENT_ROUTING_MAP
    /\ Decodable(m)

HandlerOf(m) == EVENT_ROUTING_MAP[m.event].handler_name

ActionScoped(m) == Routable(m) /\ m.event \in DOMAIN ACTION_EVENT_ROUTING_MAP

Broadcast(m) == Routable(m) /\ m.event \in DOMAIN PLUGIN_EVENT_ROUTING_MAP

\* The instances the registry holds.
Registered == { actions[j].val : j \in 1..Len(actions) }

\* The registered instance of kind u, when there is one.
InstanceOf(u) == CHOOSE i \in Registered : actions_list[i].UUID = u

\* Kind u has a registered instance.
HasInstance(u) == \E i \in Registered : actions_list[i].UUID = u

\* Message k is the one the latest call handled.
Latest(k) == last = "message" /\ k = Len(msgs)

\* The latest call wrote a log record of this level and text.
Logged(level, what) == \E i \in 1..Len(log) : log[i] = [level |-> level, what |-> what]

\* The session is serving an open connection.
Usable == phase = "serving" /\ conn = "open"

(* ============================== properties ============================= *)

\* C1: for every delivered message that is well-formed and whose event has
\* a routing entry R, the plugin-level handler named R.handler_name (which
\* the plugin-level object exposes) is invoked exactly once, and that
\* invocation precedes every invocation of an action instance's handler for
\* the same message.
C1_PluginHandlerOnceAndFirst ==
    \A k \in 1..Len(msgs) :
        Routable(msgs[k]) /\ HandlerOf(msgs[k]) \in handlers.methods =>
            LET calls == CallsOf(k)
            IN  /\ Len(calls) >= 1
                /\ calls[1].target = 0
                /\ calls[1].handler = HandlerOf(msgs[k])
                /\ \A i \in 2..Len(calls) : calls[i].target # 0

\* A broadcast reached the plugin-level handler and then two instances.
C1_Witness ==
    \E k \in 1..Len(msgs) :
        /\ Broadcast(msgs[k])
        /\ Len(CallsOf(k)) = 3
        /\ CallsOf(k)[1].target = 0

\* C2: for an action-scoped event whose `action` is the kind of a registered
\* instance (which exposes the handler), exactly one action-level invocation
\* is made, on that instance, with the event's handler; no other registered
\* instance is invoked for the message.
C2_ExactlyTheNamedInstance ==
    \A k \in 1..Len(msgs) :
        /\ ActionScoped(msgs[k])
        /\ \E i \in Registered :
              /\ actions_list[i].UUID = msgs[k].action
              /\ HandlerOf(msgs[k]) \in actions_list[i].methods
        => LET calls == CallsOf(k)
               invoked == ActionTargetsOf(k)
           IN  /\ Len(invoked) = 1
               /\ actions_list[invoked[1]].UUID = msgs[k].action
               /\ invoked[1] \in Registered
               /\ \A i \in 1..Len(calls) : calls[i].handler = HandlerOf(msgs[k])

\* A key-down for kind k1 was delivered to the k1 instance, declared second,
\* while an instance of kind k2 is registered too.
C2_Witness ==
    \E k \in 1..Len(msgs) :
        /\ ActionScoped(msgs[k])
        /\ Cardinality(Registered) = 2
        /\ ActionTargetsOf(k) = <<2>>

\* C3 as stated: an action-scoped event whose `action` names a kind with no
\* registered instance causes zero handler invocations.
C3_AsStated ==
    \A k \in 1..Len(msgs) :
        ActionScoped(msgs[k]) /\ ~HasInstance(msgs[k].action) =>
            CallsOf(k) = <<>>

\* C3 as amended: such an event causes zero action-level handler
\* invocations, the plugin-level handler is still invoked once when the
\* plugin-level object exposes it, the drop is logged at info level, and no
\* exception escapes ws_on_message.
C3_NoActionLevelInvocation ==
    \A k \in 1..Len(msgs) :
        ActionScoped(msgs[k]) /\ ~HasInstance(msgs[k].action) =>
            /\ ActionTargetsOf(k) = <<>>
            /\ HandlerOf(msgs[k]) \in handlers.methods => TargetsOf(k) = <<0>>
            /\ Latest(k) => Logged("info", "not registered") /\ escaped = NoExc

\* A key-down for the unregistered kind k3 arrived while two instances are
\* registered, and only the plugin-level handler ran.
C3_Witness ==
    \E k \in 1..Len(msgs) :
        /\ ActionScoped(msgs[k])
        /\ msgs[k].action = "k3"
        /\ Cardinality(Registered) = 2
        /\ TargetsOf(k) = <<0>>
        /\ Latest(k)

\* The position in the declared list at which kind u is first declared.
FirstDeclared(u) ==
    CHOOSE i \in DOMAIN actions_list :
        /\ actions_list[i].UUID = u
        /\ \A j \in 1..(i - 1) : actions_list[j].UUID # u

\* Every registered instance exposes message m's handler and its handler
\* returns normally.
AllHandle(m) ==
    \A i \in Registered :
        HandlerOf(m) \in actions_list[i].methods /\ actions_list[i].does = "return"

\* Message k invoked the plugin-level handler and then every registered
\* instance exactly once: N+1 invocations and no others.
PluginThenEachOnce(k) ==
    LET all == TargetsOf(k)
        invoked == ActionTargetsOf(k)
    IN  /\ Len(all) = Cardinality(Registered) + 1
        /\ all[1] = 0
        /\ { invoked[i] : i \in 1..Len(invoked) } = Registered
        /\ Len(invoked) = Cardinality(Registered)

C5_RegistrationIsFirstFrame ==
    conn = "open" =>
        /\ Len(sent) >= 1
        /\ sent[1] = json_dumps(registration_dict)

\* Message m is a JSON object naming an event without a routing entry.
Unknown(m) ==
    /\ m.text = "object"
    /\ m.event # Absent
    /\ m.event \notin DOMAIN EVENT_ROUTING_MAP

\* C6: a message whose event name has no routing entry causes no handler
\* invocation, plugin-level or action-level; it is dropped with one warning,
\* no exception escapes ws_on_message, and the session goes on.
C6_UnknownEventDropped ==
    \A k \in 1..Len(msgs) :
        Unknown(msgs[k]) =>
            /\ CallsOf(k) = <<>>
            /\ Latest(k) =>
                  /\ log = <<[level |-> "warning", what |-> "event_routing is None"]>>
                  /\ escaped = NoExc
                  /\ Usable

\* An unknown event was dropped after an earlier message had been routed to
\* the plugin-level handler and an instance.
C6_Witness ==
    /\ Len(msgs) = 2
    /\ Unknown(msgs[2])
    /\ Latest(2)
    /\ Len(CallsOf(1)) = 2

\* The objects a routable message m is to invoke, in order, given the
\* registry and the objects' methods: the plugin-level object if it exposes
\* the handler; then, for an action-scoped event, the registered instance of
\* the named kind if it exposes the handler; for a broadcast, the registry's
\* instances in order, up to the first that lacks the handler (not invoked)
\* or whose handler does not return (invoked); for an event of neither
\* table, no instance.
ExpectedTargets(m) ==
    LET h == HandlerOf(m)
        plugin_part == IF h \in handlers.methods THEN <<0>> ELSE <<>>
        vals == [j \in 1..Len(actions) |-> actions[j].val]
        Stops(j) == h \notin actions_list[vals[j]].methods
                    \/ actions_list[vals[j]].does # "return"
        upto == IF \E j \in 1..Len(vals) : Stops(j)
                THEN LET first == CHOOSE j \in 1..Len(vals) :
                                      Stops(j) /\ \A i \in 1..(j - 1) : ~Stops(i)
                     IN  IF h \in actions_list[vals[first]].methods
                         THEN first ELSE first - 1
                ELSE Len(vals)
        action_part ==
            IF m.event \in DOMAIN ACTION_EVENT_ROUTING_MAP
            THEN IF HasInstance(m.action)
                    /\ h \in actions_list[InstanceOf(m.action)].methods
                 THEN <<InstanceOf(m.action)>> ELSE <<>>
            ELSE IF m.event \in DOMAIN PLUGIN_EVENT_ROUTING_MAP
            THEN SubSeq(vals, 1, upto)
            ELSE <<>>
    IN  plugin_part \o action_part

\* C7: a message that is not valid JSON causes no handler invocation, no
\* exception escapes ws_on_message, and the session stays usable: a
\* well-formed known message delivered next invokes exactly the objects its
\* routing prescribes.
C7_MalformedJsonDropped ==
    \A k \in 1..Len(msgs) :
        msgs[k].text # "object" =>
            /\ CallsOf(k) = <<>>
            /\ Latest(k) => escaped = NoExc /\ Usable
            /\ k < Len(msgs) /\ Routable(msgs[k + 1]) =>
                  TargetsOf(k + 1) = ExpectedTargets(msgs[k + 1])

\* Text that is not JSON arrived first, and the key-down after it reached
\* the plugin-level handler and the instance of its kind.
C7_Witness ==
    /\ Len(msgs) = 2
    /\ msgs[1].text # "object"
    /\ ActionScoped(msgs[2])
    /\ Len(TargetsOf(2)) = 2
    /\ CallsOf(1) = <<>>

\* C8: when a declared action has no UUID, run() ends with the error
\* surfaced to its caller, the connection is never served, no message is
\* processed and no handler is invoked.
C8_MissingUuidSurfaced ==
    /\ \E i \in DOMAIN actions_list : actions_list[i].UUID = Absent
    /\ last = "run"
    /\ info # None
    => /\ escaped # NoExc
       /\ phase = "returned"
       /\ conn = "none"
       /\ msgs = <<>>
       /\ inv = <<>>

\* The part of C8 the code keeps: with a declared action that has no UUID
\* the connection is never served, no message is processed and no handler
\* is invoked; run() logs the error and returns.
C8_NeverServed ==
    (\E i \in DOMAIN actions_list : actions_list[i].UUID = Absent) =>
        /\ phase # "serving"
        /\ conn = "none"
        /\ msgs = <<>>
        /\ inv = <<>>
        /\ last = "run" /\ info # None => Logged("error", "must have attribute UUID")

\* C9: messages are handled in delivery order, each to completion: the
\* invocations caused by message k all precede those caused by any later
\* message, and each invocation is of the handler its own message names.
C9_NoInterleaving ==
    /\ \A i, j \in 1..Len(inv) : i < j => inv[i].msg <= inv[j].msg
    /\ \A i \in 1..Len(inv) :
          /\ inv[i].msg \in 1..Len(msgs)
          /\ Routable(msgs[inv[i].msg])
          /\ inv[i].handler = HandlerOf(msgs[inv[i].msg])

\* Two messages were delivered and each caused two invocations.
C9_Witness ==
    /\ Len(msgs) = 2
    /\ Len(CallsOf(1)) = 2
    /\ Len(CallsOf(2)) = 2
    /\ msgs[1] # msgs[2]

\* C10: in a broadcast, when the k-th instance in registry order is the
\* first that lacks the handler (the handlers before it returning), the
\* instances 1..k-1 have each been invoked once, in order, an error is
\* logged, no instance after k is invoked, and the session goes on with the
\* next message.
C10_BroadcastAbortsAtMissingHandler ==
    \A n \in 1..Len(msgs) :
        \A k \in 1..Len(actions) :
            /\ Broadcast(msgs[n])
            /\ HandlerOf(msgs[n]) \notin actions_list[actions[k].val].methods
            /\ \A j \in 1..(k - 1) :
                  /\ HandlerOf(msgs[n]) \in actions_list[actions[j].val].methods
                  /\ actions_list[actions[j].val].does = "return"
            => /\ ActionTargetsOf(n) = [j \in 1..(k - 1) |-> actions[j].val]
               /\ Latest(n) =>
                     /\ Logged("error", "Handler missing")
                     /\ escaped = NoExc
                     /\ Usable
               /\ n < Len(msgs) /\ Routable(msgs[n + 1]) =>
                     TargetsOf(n + 1) = ExpectedTargets(msgs[n + 1])

\* The first of two registered instances lacks the broadcast handler: the
\* broadcast invoked no instance, and the key-down after it was routed.
C10_Witness ==
    /\ Len(msgs) = 2
    /\ Broadcast(msgs[1])
    /\ Len(actions) = 2
    /\ HandlerOf(msgs[1]) \notin actions_list[actions[1].val].methods
    /\ TargetsOf(1) = <<0>>
    /\ Len(TargetsOf(2)) = 2

\* The second of two registered instances lacks the broadcast handler: the
\* broadcast invoked the first instance once and then stopped.
C10_WitnessAfterFirst ==
    \E n \in 1..Len(msgs) :
        /\ Broadcast(msgs[n])
        /\ Len(actions) = 2
        /\ HandlerOf(msgs[n]) \notin actions_list[actions[2].val].methods
        /\ TargetsOf(n) = <<0, actions[1].val>>

\* C11 as stated: when the plugin-level object lacks the method the routing
\* entry names, an error is logged, no handler at all (plugin-level or
\* action-level) is invoked for the event, and the session goes on.
C11_AsStated ==
    \A k \in 1..Len(msgs) :
        Routable(msgs[k]) /\ HandlerOf(msgs[k]) \notin handlers.methods =>
            /\ CallsOf(k) = <<>>
            /\ Latest(k) => Logged("error", "Handler missing") /\ Usable

\* C11 as amended: when the plugin-level object lacks the method, an error
\* is logged and the plugin-level invocation alone is skipped: the
\* action-scoped or broadcast routing of the event is still performed, no
\* exception escapes and the session goes on.
C11_PluginRouteSkipped ==
    \A k \in 1..Len(msgs) :
        Routable(msgs[k]) /\ HandlerOf(msgs[k]) \notin handlers.methods =>
            /\ \A i \in 1..Len(TargetsOf(k)) : TargetsOf(k)[i] # 0
            /\ TargetsOf(k) = ExpectedTargets(msgs[k])
            /\ Latest(k) =>
                  /\ Logged("error", "Handler missing")
                  /\ escaped = NoExc
                  /\ Usable

\* The plugin-level object has no on_key_down, and a key-down for kind k1
\* was still delivered to the registered k1 instance.
C11_Witness ==
    \E k \in 1..Len(msgs) :
        /\ ActionScoped(msgs[k])
        /\ HandlerOf(msgs[k]) \notin handlers.methods
        /\ Len(TargetsOf(k)) = 1
        /\ actions_list[TargetsOf(k)[1]].UUID = msgs[k].action
        /\ Latest(k)

\* The plugin-level object has no on_application_did_launch, and a
\* broadcast still reached both registered instances.
C11_WitnessBroadcast ==
    \E k \in 1..Len(msgs) :
        /\ Broadcast(msgs[k])
        /\ HandlerOf(msgs[k]) \notin handlers.methods
        /\ Len(TargetsOf(k)) = 2

\* Every declared action has a UUID.
AllHaveUUID == \A i \in DOMAIN actions_list : actions_list[i].UUID # Absent

\* The last position in the declared list at which kind u is declared.
LastDeclared(u) ==
    CHOOSE i \in DOMAIN actions_list :
        /\ actions_list[i].UUID = u
        /\ \A j \in (i + 1)..Len(actions_list) : actions_list[j].UUID # u

\* C12: when two declared actions share a kind, wiring completes without
\* error (run goes on to serve and logs nothing), the registry holds exactly
\* one entry for the kind, bound to the later-declared instance, and the
\* earlier-declared instance is never invoked, by an action-scoped event or
\* by a broadcast.
C12_LaterInstanceReplacesEarlier ==
    \A i, j \in DOMAIN actions_list :
        /\ i < j
        /\ actions_list[i].UUID = actions_list[j].UUID
        /\ AllHaveUUID
        => /\ last = "run" /\ info # None =>
                 phase = "serving" /\ escaped = NoExc /\ log = <<>>
           /\ phase = "serving" =>
                 LET u == actions_list[i].UUID
                 IN  /\ Cardinality({ n \in 1..Len(actions) : actions[n].key = u }) = 1
                     /\ DictGet(actions, u) = LastDeclared(u)
                     /\ i \notin Registered
           /\ \A n \in 1..Len(inv) : inv[n].target # i

\* Kind k1 was declared twice; a key-down for k1 and a broadcast each
\* reached the second declared instance and not the first.
C12_Witness ==
    /\ Len(actions_list) = 2
    /\ actions_list[1].UUID = actions_list[2].UUID
    /\ Len(msgs) = 2
    /\ ActionScoped(msgs[1])
    /\ Broadcast(msgs[2])
    /\ TargetsOf(1) = <<0, 2>>
    /\ TargetsOf(2) = <<0, 2>>

\* Kind k1 was declared twice and wiring has just completed without error.
C12_WitnessWired ==
    /\ Len(actions_list) = 3
    /\ actions_list[1].UUID = actions_list[3].UUID
    /\ last = "run"
    /\ phase = "serving"
    /\ Len(actions) = 2

\* Message m is routable and its event is in neither routing table.
PluginOnly(m) ==
    /\ Routable(m)
    /\ m.event \notin DOMAIN ACTION_EVENT_ROUTING_MAP
    /\ m.event \notin DOMAIN PLUGIN_EVENT_ROUTING_MAP

\* C13: for every processed message the action-scoped route and the
\* broadcast route are chosen by the event's scope and never both run.  An
\* action-scoped event invokes at most one instance, of the kind it names
\* (no other registered instance, as a broadcast would); a broadcast event
\* invokes the registry's instances in order, each at most once, and does
\* no kind lookup; an event with a routing entry in neither class invokes
\* the plugin-level handler only.
C13_RoutesExclusiveByScope ==
    \A k \in 1..Len(msgs) :
        Routable(msgs[k]) =>
            LET invoked == ActionTargetsOf(k)
            IN  /\ TargetsOf(k) = ExpectedTargets(msgs[k])
                /\ \A i, j \in 1..Len(invoked) : invoked[i] = invoked[j] => i = j
                /\ ActionScoped(msgs[k]) =>
                      /\ Len(invoked) <= 1
                      /\ \A i \in 1..Len(invoked) :
                            actions_list[invoked[i]].UUID = msgs[k].action
                /\ Broadcast(msgs[k]) =>
                      /\ invoked = SubSeq(DictValues(actions), 1, Len(invoked))
                      /\ Latest(k) => ~Logged("info", "not registered")
                /\ PluginOnly(msgs[k]) =>
                      /\ invoked = <<>>
                      /\ HandlerOf(msgs[k]) \in handlers.methods => TargetsOf(k) = <<0>>
                      /\ Latest(k) => ~Logged("info", "not registered")

\* With two instances registered, an event of neither class invoked the
\* plugin-level handler only, after a key-down had invoked one instance.
C13_Witness ==
    /\ Len(msgs) = 2
    /\ Cardinality(Registered) = 2
    /\ ActionScoped(msgs[1])
    /\ Len(ActionTargetsOf(1)) = 1
    /\ PluginOnly(msgs[2])
    /\ TargetsOf(2) = <<0>>
    /\ Latest(2)

\* With two instances registered, a broadcast invoked both and the key-down
\* after it only the instance of its kind.
C13_WitnessBothScopes ==
    /\ Len(msgs) = 2
    /\ Cardinality(Registered) = 2
    /\ Broadcast(msgs[1])
    /\ Len(ActionTargetsOf(1)) = 2
    /\ ActionScoped(msgs[2])
    /\ Len(ActionTargetsOf(2)) = 1

\* C14: wiring completes before traffic begins.  Whenever the connection is
\* served (so in every state in which a message is handled), the session
\* has its connection handle, plugin identifier and registration info, every
\* declared instance holds those same three values, and the registry maps
\* every declared kind to an instance of that kind.
C14_WiredBeforeTraffic ==
    phase = "serving" =>
        /\ ws = WSAPP
        /\ plugin_uuid \in PluginUUIDs
        /\ info = "Info"
        /\ \A i \in DOMAIN actions_list :
              /\ actions_list[i].ws = ws
              /\ actions_list[i].plugin_uuid = plugin_uuid
              /\ actions_list[i].info = info
              /\ actions_list[i].UUID # Absent
              /\ DictHas(actions, actions_list[i].UUID)
              /\ actions_list[DictGet(actions, actions_list[i].UUID)].UUID
                    = actions_list[i].UUID

\* A message has just been handled, and invoked a handler, in a session
\* with three declared actions of two kinds.
C14_Witness ==
    /\ last = "message"
    /\ Len(actions_list) = 3
    /\ Len(actions) = 2
    /\ Len(CallsOf(Len(msgs))) >= 2

\* C15: once run() has wired the actions and serves the connection, no
\* open, message, error or close handling changes the registry: its keys,
\* their order and the instance bound to each key stay as wiring left them,
\* whatever the message and whether or not routing fails.
C15_RegistryFrozenAfterWiring ==
    [][phase = "serving" => actions' = actions /\ actions_list' = actions_list]_vars

\* Two messages were handled with two instances registered, routing of the
\* latest failed in a handler, and the registry still maps each declared
\* kind to the instance declared last for it.
C15_Witness ==
    /\ Len(msgs) = 2
    /\ Len(actions) = 2
    /\ Latest(2)
    /\ Logged("error", "HandlerError")
    /\ \A u \in DeclaredKinds : DictGet(actions, u) = LastDeclared(u)

\* The invocations message k made on action instances, in order.
ActionCallsOf(k) == SelectSeq(CallsOf(k), LAMBDA c : c.target # 0)

\* Message m is action-scoped and names a kind whose registered instance
\* exposes m's handler.
Deliverable(m) ==
    /\ ActionScoped(m)
    /\ HasInstance(m.action)
    /\ HandlerOf(m) \in actions_list[InstanceOf(m.action)].methods

\* C16: action-scoped routing selects the instance by the event's `action`
\* alone.  Every deliverable action-scoped event invokes exactly one
\* instance, the registered one of its kind, with the event's own context;
\* two such events with the same `action` invoke the same instance,
\* whatever their contexts.
C16_TargetByKindAlone ==
    /\ \A k \in 1..Len(msgs) :
          Deliverable(msgs[k]) =>
              /\ Len(ActionCallsOf(k)) = 1
              /\ ActionCallsOf(k)[1].target = InstanceOf(msgs[k].action)
              /\ \A i \in 1..Len(CallsOf(k)) :
                    CallsOf(k)[i].context = msgs[k].context
    /\ \A j, k \in 1..Len(msgs) :
          /\ Deliverable(msgs[j])
          /\ Deliverable(msgs[k])
          /\ msgs[j].action = msgs[k].action
          => ActionTargetsOf(j) = ActionTargetsOf(k)

\* Two key-downs for kind k1 with different contexts were both delivered to
\* the same instance, each call with its own context, while an instance of
\* another kind is registered.
C16_Witness ==
    /\ Len(msgs) = 2
    /\ Deliverable(msgs[1])
    /\ Deliverable(msgs[2])
    /\ msgs[1].action = msgs[2].action
    /\ msgs[1].context # msgs[2].context
    /\ Cardinality(Registered) = 2
    /\ Len(ActionCallsOf(1)) = 1
    /\ Len(ActionCallsOf(2)) = 1
    /\ ActionCallsOf(1)[1].target = ActionCallsOf(2)[1].target
    /\ ActionCallsOf(1)[1].context # ActionCallsOf(2)[1].context

\* Message m is a JSON object without an `event` key.
NoEventField(m) == m.text = "object" /\ m.event = Absent

\* Message m is a JSON object whose event has a routing entry and whose
\* content the entry's decoder rejects.
DecodeFails(m) ==
    /\ m.text = "object"
    /\ m.event \in DOMAIN EVENT_ROUTING_MAP
    /\ ~Decodable(m)

\* C17: a message that parses as JSON but has no `event` field, or whose
\* content fails decoding by the routing entry's decoder, causes no handler
\* invocation and is dropped: one error is logged, no exception escapes
\* ws_on_message, and the session goes on.
C17_UndecodableDropped ==
    \A k \in 1..Len(msgs) :
        NoEventField(msgs[k]) \/ DecodeFails(msgs[k]) =>
            /\ CallsOf(k) = <<>>
            /\ Latest(k) =>
                  /\ escaped = NoExc
                  /\ Usable
                  /\ log = <<[level |-> "error",
                              what |-> IF NoEventField(msgs[k])
                                       THEN "KeyError" ELSE "ValidationError"]>>

\* A key-down whose payload the decoder rejects was dropped, in a session
\* whose earlier key-down had invoked the plugin-level handler and an
\* instance.
C17_Witness ==
    /\ Len(msgs) = 2
    /\ Len(CallsOf(1)) = 2
    /\ DecodeFails(msgs[2])
    /\ HasInstance(msgs[2].action)
    /\ CallsOf(2) = <<>>
    /\ Latest(2)

\* A JSON object without an `event` field was dropped with two instances
\* registered.
C17_WitnessNoEvent ==
    /\ Len(msgs) = 2
    /\ NoEventField(msgs[2])
    /\ Len(actions) = 2
    /\ CallsOf(2) = <<>>
    /\ Latest(2)

\* Message k invoked a handler that did not return normally.
HandlerFailed(k) ==
    \E i \in 1..Len(CallsOf(k)) :
        LET t == CallsOf(k)[i].target
        IN  IF t = 0 THEN handlers.does # "return"
            ELSE actions_list[t].does # "return"

\* C18: whatever messages are delivered (malformed, unknown, naming a
\* missing handler or target, or invoking a handler that raises), no error
\* leaves ws_on_message, the session stays usable, and every well-formed
\* known message, whatever came before it, invokes exactly the objects its
\* routing prescribes, with the handler its event names.
C18_NoErrorLeavesMessageCallback ==
    /\ last = "message" => escaped = NoExc /\ Usable
    /\ \A k \in 1..Len(msgs) :
          Routable(msgs[k]) =>
              /\ TargetsOf(k) = ExpectedTargets(msgs[k])
              /\ \A i \in 1..Len(CallsOf(k)) :
                    CallsOf(k)[i].handler = HandlerOf(msgs[k])

\* A message invoked a handler that raised, and the key-down delivered
\* after it still reached the plugin-level handler and its instance.
C18_Witness ==
    /\ Len(msgs) = 2
    /\ HandlerFailed(1)
    /\ \E i \in DOMAIN actions_list : actions_list[i].does = "raise"
    /\ ActionScoped(msgs[2])
    /\ Len(TargetsOf(2)) = 2
    /\ Latest(2)

\* A JSON object without an `event` field was followed by a broadcast that
\* reached the plugin-level handler and both registered instances.
C18_WitnessAfterMalformed ==
    /\ Len(msgs) = 2
    /\ NoEventField(msgs[1])
    /\ Broadcast(msgs[2])
    /\ Len(TargetsOf(2)) = 3
    /\ Latest(2)

\* What reaches the caller of a handler that behaves as `does`.
Raised(does) == IF does = "raise" THEN "HandlerError" ELSE "AttributeError"

\* C19: when the plugin-level handler raises while handling an event, the
\* error is logged by the plugin-level route and goes no further, and the
\* action-scoped or broadcast routing of the same event is still performed:
\* an action-scoped event reaches the registered instance of its kind (or
\* is reported as not registered), a broadcast reaches every registered
\* instance in registry order.
C19_PluginFailureContained ==
    \A k \in 1..Len(msgs) :
        /\ Routable(msgs[k])
        /\ HandlerOf(msgs[k]) \in handlers.methods
        /\ handlers.does # "return"
        => /\ Len(TargetsOf(k)) >= 1
           /\ TargetsOf(k)[1] = 0
           /\ ActionScoped(msgs[k]) /\ HasInstance(msgs[k].action) =>
                 ActionTargetsOf(k) = <<InstanceOf(msgs[k].action)>>
           /\ Broadcast(msgs[k]) => ActionTargetsOf(k) = DictValues(actions)
           /\ Latest(k) =>
                 /\ escaped = NoExc
                 /\ log[1] = [level |-> "error", what |-> Raised(handlers.does)]
                 /\ ActionScoped(msgs[k]) /\ ~HasInstance(msgs[k].action) =>
                       Logged("info", "not registered")

\* The plugin-level handler raised on a broadcast, and the broadcast still
\* reached both registered instances.
C19_Witness ==
    \E k \in 1..Len(msgs) :
        /\ handlers.does = "raise"
        /\ Broadcast(msgs[k])
        /\ Len(actions) = 2
        /\ Len(ActionTargetsOf(k)) = 2
        /\ Latest(k)

\* The plugin-level handler raised on a key-down, and the key-down still
\* reached the instance of its kind.
C19_WitnessActionScoped ==
    \E k \in 1..Len(msgs) :
        /\ handlers.does = "raise"
        /\ ActionScoped(msgs[k])
        /\ Len(ActionTargetsOf(k)) = 1

\* C20: in a broadcast, when the handler of the k-th instance in registry
\* order raises (the handlers before it returning), the instances 1..k have
\* each been invoked once, in order, no instance after k is invoked, the
\* error is logged once, by the broadcast route, no exception escapes, and
\* the next message is routed as usual.
C20_BroadcastAbortsAtRaisingHandler ==
    \A n \in 1..Len(msgs) :
        \A k \in 1..Len(actions) :
            /\ Broadcast(msgs[n])
            /\ HandlerOf(msgs[n]) \in handlers.methods
            /\ handlers.does = "return"
            /\ HandlerOf(msgs[n]) \in actions_list[actions[k].val].methods
            /\ actions_list[actions[k].val].does # "return"
            /\ \A j \in 1..(k - 1) :
                  /\ HandlerOf(msgs[n]) \in actions_list[actions[j].val].methods
                  /\ actions_list[actions[j].val].does = "return"
            => /\ ActionTargetsOf(n) = [j \in 1..k |-> actions[j].val]
               /\ Latest(n) =>
                     /\ log = <<[level |-> "error",
                                 what |-> Raised(actions_list[actions[k].val].does)]>>
                     /\ escaped = NoExc
                     /\ Usable
               /\ n < Len(msgs) /\ Routable(msgs[n + 1]) =>
                     TargetsOf(n + 1) = ExpectedTargets(msgs[n + 1])

\* The handler of the first of two registered instances raised on a
\* broadcast: the second instance was not invoked, and the key-down after
\* the broadcast was routed.
C20_Witness ==
    /\ Len(msgs) = 2
    /\ Broadcast(msgs[1])
    /\ Len(actions) = 2
    /\ actions_list[actions[1].val].does = "raise"
    /\ TargetsOf(1) = <<0, actions[1].val>>
    /\ Deliverable(msgs[2])
    /\ Len(TargetsOf(2)) = 2

\* The handler of the second of two registered instances raised on a
\* broadcast, after the first instance had been invoked.
C20_WitnessAfterFirst ==
    \E n \in 1..Len(msgs) :
        /\ Broadcast(msgs[n])
        /\ Len(actions) = 2
        /\ actions_list[actions[2].val].does = "raise"
        /\ TargetsOf(n) = <<0, actions[1].val, actions[2].val>>
        /\ Latest(n)

====
